---- MODULE Spec2Model ----
(***************************************************************************)
(* jwst_gtvt/find_tgt_info.py: the observability-window scan of main(),    *)
(* the per-day position-angle projection, bound_angle and the wraparound   *)
(* banding of plot_single_instrument.                                      *)
(*                                                                         *)
(* Times are kept in tenths of a day (the scanner brackets a transition    *)
(* with adate and adate-0.1), dates are whole MJD days, angles are kept in *)
(* units of 1e-4 degree (the instrument offsets have four decimals).       *)
(***************************************************************************)
EXTENDS Integers, Sequences, FiniteSets, TLC

\* ------------------------------------------------------------ bounds
MaxSpan == 3
MaxTurns == 2
MaxEpochs == 2
MaxPitchSteps == 8

\* ------------------------------------------------- program constants
DomainMin == 58849
DomainMax == 60675
BracketWidth == 1
Full == 3600000
NRCALL_FULL_V2IdlYang == -265
NRS_FULL_MSA_V3IdlYang == 1374874
NIS_V3IdlYang == -5700
MIRIM_FULL_V3IdlYang == 50152
FGS1_FULL_V3IdlYang == -12508
AbsMaxSunRoll == 52
PitchThreshold == 25
SlopeNumerator == 17
Margin == 1

Day == 10 * BracketWidth

\* np.nan: a missing value; a number v is the one-element tuple <<v>>.
NaN == << >>
Num(v) == <<v>>
IsNaN(x) == x = NaN
Val(x) == x[1]

VARIABLES
    pc, err,
    start_date, end_date, fixed, pa, forv, valv,
    search_start, span, nra,
    iflag_old, iflag, iflip, twstart, ra_start, i, adate, assigned,
    table, calls, bisects, dec_final,
    tgt_is_in, itime, rows, min_data, max_data, fills,
    ang, ang_out, min_pa, max_pa, bands,
    sun_p, sun_p2, max_sun_roll, max_sun_roll2

argvars == <<start_date, end_date, fixed, pa, forv, valv>>
setupvars == <<search_start, span, nra>>
scanvars == <<iflag_old, iflag, iflip, twstart, ra_start, i, adate, assigned>>
outvars == <<table, calls, bisects, dec_final>>
projvars == <<tgt_is_in, itime, rows, min_data, max_data, fills>>
rollvars == <<sun_p, sun_p2, max_sun_roll, max_sun_roll2>>
purevars == <<ang, ang_out, min_pa, max_pa, bands, rollvars>>
vars == <<pc, err, argvars, setupvars, scanvars, outvars, projvars, purevars>>

Frames == {"V3", "NIRCam", "NIRSpec", "NIRISS", "MIRI", "FGS"}

\* ----------------------------------------------------- bound_angle
\* while ang<0.: ang += 360.
RECURSIVE bound_angle_raise(_)
bound_angle_raise(a) == IF a < 0 THEN bound_angle_raise(a + Full) ELSE a

\* while ang>360.: ang -= 360.
RECURSIVE bound_angle_lower(_)
bound_angle_lower(a) == IF a > Full THEN bound_angle_lower(a - Full) ELSE a

bound_angle(a) == bound_angle_lower(bound_angle_raise(a))

\* --------------------------------------------- allowed_max_sun_roll
\* Pitches are in tenths of a degree; rolls are in units of 1/270 degree, the
\* tenth of a degree times the divisor (5.2 - 2.5, in tenths), so that the
\* division of line 85 is exact.
RollDivisor == AbsMaxSunRoll - PitchThreshold

\* The curve with the slope term added instead of subtracted.
allowed_max_sun_roll_rising(p) ==
    (IF p > PitchThreshold
     THEN AbsMaxSunRoll * RollDivisor + SlopeNumerator * (p - PitchThreshold)
     ELSE AbsMaxSunRoll * RollDivisor)
    - Margin * RollDivisor

allowed_max_sun_roll(p) ==
    (IF p > PitchThreshold
     THEN AbsMaxSunRoll * RollDivisor - SlopeNumerator * (p - PitchThreshold)
     ELSE AbsMaxSunRoll * RollDivisor)
    - Margin * RollDivisor

\* ------------------------------------------ plot_single_instrument
\* numpy's elementwise < and >: False whenever either side is nan.
Lt(x, y) == ~IsNaN(x) /\ ~IsNaN(y) /\ Val(x) < Val(y)
Gt(x, y) == ~IsNaN(x) /\ ~IsNaN(y) /\ Val(x) > Val(y)

\* np.any(min_pa > max_pa)
any_wrapped(mn, mx) == \E k \in 1..Len(mn) : Gt(mn[k], mx[k])

\* (min_pa_upper, max_pa_upper): 360 where min>max, nan where min<max.
upper_band(mn, mx) ==
    [lo |-> [k \in 1..Len(mn) |-> IF Lt(mn[k], mx[k]) THEN NaN ELSE mn[k]],
     hi |-> [k \in 1..Len(mn) |->
                IF Lt(mn[k], mx[k]) THEN NaN
                ELSE IF Gt(mn[k], mx[k]) THEN Num(Full) ELSE mx[k]]]

\* The lower band without min_pa_lower[minpa_gt_maxpa] = 0.
lower_band_not_zeroed(mn, mx) ==
    [lo |-> [k \in 1..Len(mn) |-> IF Lt(mn[k], mx[k]) THEN NaN ELSE mn[k]],
     hi |-> [k \in 1..Len(mn) |-> IF Lt(mn[k], mx[k]) THEN NaN ELSE mx[k]]]

\* (min_pa_lower, max_pa_lower): 0 where min>max, nan where min<max.
lower_band(mn, mx) ==
    [lo |-> [k \in 1..Len(mn) |->
                IF Lt(mn[k], mx[k]) THEN NaN
                ELSE IF Gt(mn[k], mx[k]) THEN Num(0) ELSE mn[k]],
     hi |-> [k \in 1..Len(mn) |-> IF Lt(mn[k], mx[k]) THEN NaN ELSE mx[k]]]

\* (min_pa, max_pa) with the wrapped epochs set to nan.
middle_band(mn, mx) ==
    [lo |-> [k \in 1..Len(mn) |-> IF Gt(mn[k], mx[k]) THEN NaN ELSE mn[k]],
     hi |-> [k \in 1..Len(mn) |-> IF Gt(mn[k], mx[k]) THEN NaN ELSE mx[k]]]

\* The fill_between calls of one instrument, in the order they are made:
\* upper, lower, middle when some epoch wraps, else the series as given.
plot_single_instrument(mn, mx) ==
    IF any_wrapped(mn, mx)
    THEN <<upper_band(mn, mx), lower_band(mn, mx), middle_band(mn, mx)>>
    ELSE <<[lo |-> mn, hi |-> mx]>>

\* ------------------------------------------------------- the oracle
\* A_eph.amin, the first epoch of the ephemeris the oracle holds.
A_eph_amin == DomainMin

\* A_eph.in_FOR / A_eph.is_valid at grid index k (time search_start + k days,
\* position ra[k], dec[k]): pure queries, so one value per grid index.
Evaluate(name, k) == IF name = "in_FOR" THEN forv[k] ELSE valv[k]

\* A_eph.bisect_by_FOR / bisect_by_attitude: some time within the bracket.
Bisect(t1, t2) == IF t1 <= t2 THEN t1..t2 ELSE t2..t1

\* A_eph.normal_pa(t, ra[p], dec[p]), kept symbolic; the fixed input angle;
\* a literal angle.
NormalPA(t, p) == [kind |-> "normal_pa", t |-> t, pos |-> p, val |-> 0]
FixedPA == [kind |-> "pa", t |-> 0, pos |-> 0, val |-> 0]
Angle(v) == [kind |-> "angle", t |-> 0, pos |-> 0, val |-> v]

\* Values normal_pa*R2D and the solved vehicle roll take in the projection;
\* the signs of a declination; the --instrument choices.
NormalPAs == {20000, 1800000}
MaxRolls == {50000}
DecSigns == {-1, 0, 1}
Instruments == {"none", "v3", "bogus"}

\* ------------------------------------------------------------- main
\* ra[k], dec[k]: one repeated position for a fixed target, the k-th
\* ephemeris sample for a moving one.
Pos(k) == IF fixed THEN 0 ELSE k

\* A scan that ignores the fixed angle.
ScannerPredicate_ignores_pa == "in_FOR"

\* The predicate the scan evaluates / the one the projection evaluates.
ScannerPredicate == IF pa = "X" THEN "in_FOR" ELSE "is_valid"
ProjectorPredicate == "in_FOR"

\* The range tests without the start-after-end test.
range_error_no_order(s, e) ==
    \/ ~(DomainMin <= s /\ s <= DomainMax)
    \/ ~(DomainMin <= e /\ e <= DomainMax)

\* The three range tests that raise ValueError (docopt always supplies
\* both dates, so the "is not None" conjuncts are true).
range_error(s, e) ==
    \/ ~(DomainMin <= s /\ s <= DomainMax)
    \/ ~(DomainMin <= e /\ e <= DomainMax)
    \/ s > e

\* The line with start and end taken in the other order.
window_summary_line_swapped(wstart, wend, pa_start, pa_end, r_start, r_end, d_start, d_end, cvz) ==
    [cvz |-> cvz, wstart |-> wend, wend |-> wstart,
     pa_start |-> pa_start, pa_end |-> pa_end,
     ra_start |-> r_start, ra_end |-> r_end,
     dec_start |-> d_start, dec_end |-> d_end]

window_summary_line(wstart, wend, pa_start, pa_end, r_start, r_end, d_start, d_end, cvz) ==
    [cvz |-> cvz, wstart |-> wstart, wend |-> wend,
     pa_start |-> pa_start, pa_end |-> pa_end,
     ra_start |-> r_start, ra_end |-> r_end,
     dec_start |-> d_start, dec_end |-> d_end]

Offset(f) ==
    CASE f = "V3" -> 0
      [] f = "NIRCam" -> NRCALL_FULL_V2IdlYang
      [] f = "NIRSpec" -> NRS_FULL_MSA_V3IdlYang
      [] f = "NIRISS" -> NIS_V3IdlYang
      [] f = "MIRI" -> MIRIM_FULL_V3IdlYang
      [] f = "FGS" -> FGS1_FULL_V3IdlYang

\* --instrument, lower-cased, to the series it plots.
FrameOf(inst) == IF inst = "v3" THEN "V3" ELSE inst

MainIdle ==
    /\ start_date = DomainMin /\ end_date = DomainMin
    /\ fixed = TRUE /\ pa = "X"
    /\ forv = [k \in {0} |-> FALSE] /\ valv = [k \in {0} |-> FALSE]

MainLocals ==
    /\ err = ""
    /\ search_start = 0 /\ span = 0 /\ nra = 0
    /\ iflag_old = FALSE /\ iflag = FALSE /\ iflip = FALSE
    /\ twstart = 0 /\ ra_start = 0 /\ i = 0 /\ adate = 0 /\ assigned = {}
    /\ table = << >> /\ calls = {} /\ bisects = << >> /\ dec_final = 0
    /\ tgt_is_in = FALSE /\ itime = 0 /\ rows = << >>
    /\ min_data = [f \in Frames |-> << >>] /\ max_data = [f \in Frames |-> << >>]
    /\ fills = << >>

RollIdle ==
    /\ sun_p = 0 /\ sun_p2 = 0 /\ max_sun_roll = 0 /\ max_sun_roll2 = 0

PureIdle ==
    /\ ang = 0 /\ ang_out = 0
    /\ min_pa = << >> /\ max_pa = << >> /\ bands = << >>
    /\ RollIdle

StartDates == {DomainMin - 1, DomainMin, DomainMax, DomainMax + 1}

\* The grid indices 0..span of a span; a run with start after end never
\* reads the oracle.
Grid(s, e) == IF s <= e THEN 0..(e - s) ELSE {0}

\* is_valid is meaningful only with a fixed angle: without one it is never
\* called and is tied to in_FOR to keep one state per run.
Init ==
    /\ pc = "main"
    /\ start_date \in StartDates
    /\ end_date \in (start_date - 1)..(start_date + MaxSpan)
    /\ fixed \in BOOLEAN
    /\ pa \in {"X", "PA"}
    /\ forv \in [Grid(start_date, end_date) -> BOOLEAN]
    /\ valv \in IF pa = "X" THEN {forv} ELSE [Grid(start_date, end_date) -> BOOLEAN]
    /\ MainLocals
    /\ PureIdle

\* Lines 152-169: the range tests, the start nudge, span.
Validate ==
    /\ pc = "main"
    /\ IF range_error(start_date, end_date)
       THEN /\ pc' = "error"
            /\ err' = "ValueError"
            /\ UNCHANGED setupvars
       ELSE LET s == IF start_date < A_eph_amin THEN A_eph_amin + 1 ELSE start_date
            IN /\ pc' = "target"
               /\ err' = err
               /\ search_start' = s
               /\ span' = end_date - s
               /\ nra' = nra
    /\ UNCHANGED <<argvars, scanvars, outvars, projvars, purevars>>

\* Lines 173-194: the position arrays, span+1 long; the ephemeris service
\* may return another length, which the assertion rejects.
LoadTarget ==
    /\ pc = "target"
    /\ \E n \in IF fixed THEN {span + 1} ELSE {span, span + 1} :
          /\ nra' = n
          /\ IF n = span + 1
             THEN pc' = "scan_init" /\ err' = err
             ELSE pc' = "error" /\ err' = "AssertionError"
    /\ UNCHANGED <<argvars, search_start, span, scanvars, outvars, projvars, purevars>>

\* A scan that starts from False instead of the predicate at search_start.
initial_iflag_old_false == FALSE

\* Line 212 / 215: the predicate at search_start.
initial_iflag_old == Evaluate(ScannerPredicate, 0)

\* Lines 211-237.
ScanInit ==
    /\ pc = "scan_init"
    /\ calls' = calls \cup {<<"scanner", ScannerPredicate>>}
    /\ iflag_old' = initial_iflag_old
    /\ IF iflag_old'
       THEN /\ twstart' = Day * search_start
            /\ ra_start' = Pos(0)
            /\ assigned' = assigned \cup {"ra_start"}
       ELSE /\ twstart' = -Day
            /\ UNCHANGED <<ra_start, assigned>>
    /\ iflip' = FALSE
    /\ pc' = IF 0 < span THEN "scan" ELSE "post"
    /\ UNCHANGED <<err, argvars, setupvars, iflag, i, adate, table, bisects,
                   dec_final, projvars, purevars>>

\* Lines 244-282: one iteration of the scan loop, range(0, span*scale).
ScanStep ==
    /\ pc = "scan"
    /\ LET k == IF "i" \in assigned THEN i + 1 ELSE 0
           t == Day * (search_start + k)
           f == Evaluate(ScannerPredicate, k)
       IN /\ i' = k
          /\ adate' = t
          /\ iflag' = f
          /\ calls' = calls \cup {<<"scanner", ScannerPredicate>>}
          /\ IF f # iflag_old
             THEN /\ iflip' = TRUE
                  /\ iflag_old' = f
                  /\ IF f
                     THEN \E tw \in Bisect(t, t - BracketWidth) :
                            /\ twstart' = tw
                            /\ ra_start' = Pos(k)
                            /\ assigned' = assigned \cup {"i", "adate", "iflag", "ra_start"}
                            /\ bisects' = Append(bisects, [first |-> t, second |-> t - BracketWidth,
                                                           index |-> k, opening |-> TRUE, result |-> tw])
                            /\ table' = table
                     ELSE \E wend \in Bisect(t - BracketWidth, t) :
                            /\ UNCHANGED <<twstart, ra_start>>
                            /\ assigned' = assigned \cup {"i", "adate", "iflag"}
                            /\ bisects' = Append(bisects, [first |-> t - BracketWidth, second |-> t,
                                                           index |-> k, opening |-> FALSE, result |-> wend])
                            /\ table' =
                                 IF twstart > 0
                                 THEN Append(table,
                                        window_summary_line(twstart, wend,
                                            IF pa = "X" THEN NormalPA(twstart, ra_start) ELSE FixedPA,
                                            IF pa = "X" THEN NormalPA(wend, Pos(k)) ELSE FixedPA,
                                            ra_start, Pos(k), 0, 0, FALSE))
                                 ELSE table
             ELSE /\ assigned' = assigned \cup {"i", "adate", "iflag"}
                  /\ UNCHANGED <<iflip, iflag_old, twstart, ra_start, bisects, table>>
          /\ pc' = IF k + 1 < span THEN "scan" ELSE "post"
    /\ UNCHANGED <<err, argvars, setupvars, dec_final, projvars, purevars>>

\* Line 286 and line 296, once iflag is known to be bound.
final_window_due == iflip = TRUE /\ iflag = TRUE
cvz_due == iflip = FALSE /\ iflag = TRUE /\ pa = "X"

\* The hemisphere test with zero declination counted as north.
cvz_angles_zero_north(d) == IF d >= 0 THEN <<Angle(Full), Angle(0)>> ELSE <<Angle(0), Angle(Full)>>

\* Line 297: dec[i] > 0 puts 2*pi first; otherwise 0 first.
cvz_angles(d) == IF d > 0 THEN <<Angle(Full), Angle(0)>> ELSE <<Angle(0), Angle(Full)>>

\* Lines 286-300. Exactly one of the two tests reads iflag (the first when
\* iflip is True, the second when it is False): a loop that never ran leaves
\* iflag unbound and the read raises UnboundLocalError.
PostLoop ==
    /\ pc = "post"
    /\ IF "iflag" \notin assigned
       THEN /\ pc' = "error"
            /\ err' = "UnboundLocalError"
            /\ UNCHANGED <<table, dec_final>>
       ELSE \E d0 \in DecSigns, di \in DecSigns, dl \in DecSigns :
            /\ fixed => (d0 = di /\ di = dl)
            /\ ~cvz_due => (d0 = 0 /\ di = 0 /\ dl = 0)
            /\ pc' = "project_init"
            /\ err' = err
            /\ dec_final' = IF cvz_due THEN di ELSE dec_final
            /\ table' = table
                 \o (IF final_window_due
                     THEN <<window_summary_line(twstart, adate,
                               IF pa = "X" THEN NormalPA(twstart, Pos(i)) ELSE FixedPA,
                               IF pa = "X" THEN NormalPA(adate, Pos(i)) ELSE FixedPA,
                               Pos(i), Pos(i), 0, 0, FALSE)>>
                     ELSE << >>)
                 \o (IF cvz_due
                     THEN <<window_summary_line(0, 0, cvz_angles(di)[1], cvz_angles(di)[2],
                               Pos(0), Pos(nra - 1), d0, dl, TRUE)>>
                     ELSE << >>)
    /\ UNCHANGED <<argvars, setupvars, scanvars, calls, bisects, projvars, purevars>>

\* Lines 302-335: the projection's first evaluation and its empty series.
ProjectInit ==
    /\ pc = "project_init"
    /\ calls' = calls \cup {<<"projector", ProjectorPredicate>>}
    /\ iflag' = Evaluate(ProjectorPredicate, 0)
    /\ tgt_is_in' = iflag'
    /\ itime' = search_start
    /\ rows' = << >>
    /\ min_data' = [f \in Frames |-> << >>]
    /\ max_data' = [f \in Frames |-> << >>]
    /\ pc' = IF search_start < search_start + span THEN "project" ELSE "plot"
    /\ UNCHANGED <<err, argvars, setupvars, iflag_old, iflip, twstart, ra_start, i,
                   adate, assigned, table, bisects, dec_final, fills, purevars>>

\* Lines 337-404: one day of the projection, range(istart, iend).
ProjectStep ==
    /\ pc = "project"
    /\ LET k == itime - search_start
           f == Evaluate(ProjectorPredicate, k)
       IN /\ i' = k
          /\ iflag' = f
          /\ calls' = calls \cup {<<"projector", ProjectorPredicate>>}
          /\ tgt_is_in' = f
          /\ IF f
             THEN \E V3PA \in NormalPAs, max_boresight_roll \in MaxRolls :
                    /\ min_data' = [g \in Frames |->
                          Append(min_data[g], Num(bound_angle(V3PA - max_boresight_roll + Offset(g))))]
                    /\ max_data' = [g \in Frames |->
                          Append(max_data[g], Num(bound_angle(V3PA + max_boresight_roll + Offset(g))))]
                    /\ rows' = Append(rows, [date |-> itime, index |-> k,
                          min |-> [g \in Frames |-> bound_angle(V3PA - max_boresight_roll + Offset(g))],
                          max |-> [g \in Frames |-> bound_angle(V3PA + max_boresight_roll + Offset(g))]])
             ELSE /\ min_data' = [g \in Frames |-> Append(min_data[g], NaN)]
                  /\ max_data' = [g \in Frames |-> Append(max_data[g], NaN)]
                  /\ rows' = rows
          /\ itime' = itime + 1
          /\ pc' = IF itime + 1 < search_start + span THEN "project" ELSE "plot"
    /\ UNCHANGED <<err, argvars, setupvars, iflag_old, iflip, twstart, ra_start,
                   adate, assigned, table, bisects, dec_final, fills, purevars>>

\* Lines 406-520: one banded plot per instrument, one for a chosen instrument,
\* none for an unrecognised one.
Plot ==
    /\ pc = "plot"
    /\ \E inst \in Instruments :
          fills' = IF inst = "bogus" THEN fills
                   ELSE [g \in (IF inst = "none" THEN Frames ELSE {FrameOf(inst)}) |->
                            plot_single_instrument(min_data[g], max_data[g])]
    /\ pc' = "done"
    /\ UNCHANGED <<err, argvars, setupvars, scanvars, outvars, tgt_is_in, itime,
                   rows, min_data, max_data, purevars>>

Next ==
    \/ Validate
    \/ LoadTarget
    \/ ScanInit
    \/ ScanStep
    \/ PostLoop
    \/ ProjectInit
    \/ ProjectStep
    \/ Plot

Spec == Init /\ [][Next]_vars

\* ------------------------------------- bound_angle on its own inputs
\* Quarter turns up to MaxTurns full turns either way, and their neighbours.
AngleInputs ==
    {q * (Full \div 4) + d : q \in (-4 * MaxTurns)..(4 * MaxTurns), d \in {-1, 0, 1}}

InitBound ==
    /\ pc = "bound_angle"
    /\ ang \in AngleInputs
    /\ ang_out = 0
    /\ min_pa = << >> /\ max_pa = << >> /\ bands = << >>
    /\ RollIdle
    /\ MainIdle
    /\ MainLocals

CallBoundAngle ==
    /\ pc = "bound_angle"
    /\ ang_out' = bound_angle(ang)
    /\ pc' = "returned"
    /\ UNCHANGED <<err, argvars, setupvars, scanvars, outvars, projvars,
                   ang, min_pa, max_pa, bands, rollvars>>

NextBound == CallBoundAngle

SpecBound == InitBound /\ [][NextBound]_vars

\* ------------------------- plot_single_instrument on its own inputs
\* The series main() builds: per epoch both values nan (outside the field of
\* regard) or both results of bound_angle.
BandAngles == {0, 100000, 3500000, Full}
Epochs == {<<NaN, NaN>>} \cup {<<Num(a), Num(b)>> : a \in BandAngles, b \in BandAngles}

InitBand ==
    /\ pc = "plot_single_instrument"
    /\ \E n \in 1..MaxEpochs :
         \E e \in [1..n -> Epochs] :
            /\ min_pa = [k \in 1..n |-> e[k][1]]
            /\ max_pa = [k \in 1..n |-> e[k][2]]
    /\ bands = << >>
    /\ ang = 0 /\ ang_out = 0
    /\ RollIdle
    /\ MainIdle
    /\ MainLocals

CallPlotSingleInstrument ==
    /\ pc = "plot_single_instrument"
    /\ bands' = plot_single_instrument(min_pa, max_pa)
    /\ pc' = "returned"
    /\ UNCHANGED <<err, argvars, setupvars, scanvars, outvars, projvars,
                   ang, ang_out, min_pa, max_pa, rollvars>>

NextBand == CallPlotSingleInstrument

SpecBand == InitBand /\ [][NextBand]_vars

\* ------------------------------ allowed_max_sun_roll on its own inputs
\* Two pitches around the 2.5 degree threshold, and the ends of asin's range.
PitchInputs ==
    ((PitchThreshold - MaxPitchSteps)..(PitchThreshold + MaxPitchSteps)) \cup {-900, 900}

InitRoll ==
    /\ pc = "allowed_max_sun_roll"
    /\ sun_p \in PitchInputs
    /\ sun_p2 \in PitchInputs
    /\ max_sun_roll = 0 /\ max_sun_roll2 = 0
    /\ ang = 0 /\ ang_out = 0
    /\ min_pa = << >> /\ max_pa = << >> /\ bands = << >>
    /\ MainIdle
    /\ MainLocals

CallAllowedMaxSunRoll ==
    /\ pc = "allowed_max_sun_roll"
    /\ max_sun_roll' = allowed_max_sun_roll(sun_p)
    /\ max_sun_roll2' = allowed_max_sun_roll(sun_p2)
    /\ pc' = "returned"
    /\ UNCHANGED <<err, argvars, setupvars, scanvars, outvars, projvars,
                   ang, ang_out, min_pa, max_pa, bands, sun_p, sun_p2>>

NextRoll == CallAllowedMaxSunRoll

SpecRoll == InitRoll /\ [][NextRoll]_vars

\* =========================================================== claims
\* The scan and the window emission after it have finished without error.
ScanDone == pc \in {"project_init", "project", "plot", "done"}

\* The predicate of the run at grid index k, k in 0..(end_date - start_date).
P(k) == IF pa = "X" THEN forv[k] ELSE valv[k]
LastIndex == end_date - start_date
Accepted ==
    /\ start_date <= end_date
    /\ DomainMin <= start_date /\ start_date <= DomainMax
    /\ DomainMin <= end_date /\ end_date <= DomainMax

FiniteWindows == {j \in 1..Len(table) : ~table[j].cvz}
CvzWindows == {j \in 1..Len(table) : table[j].cvz}

\* The first grid indices of the maximal runs of true grid points.
TrueRuns == {k \in 0..LastIndex : P(k) /\ (k = 0 \/ ~P(k - 1))}
FlipOnGrid == \E k \in 1..LastIndex : P(k) # P(k - 1)

\* C1: when the predicate flips somewhere on the grid search_start..search_end
\* (both ends included), the finished scan has emitted exactly one finite
\* Window per maximal run of true grid points.
C1_OneWindowPerTrueRun ==
    (ScanDone /\ FlipOnGrid) => Cardinality(FiniteWindows) = Cardinality(TrueRuns)

\* C2: without a fixed position angle, a predicate true at every grid point of
\* a span of at least one day yields exactly one continuous-viewing Window and
\* no finite Window.
C2_ConstantTrueGivesOneCvz ==
    (pa = "X" /\ Accepted /\ LastIndex >= 1 /\ \A k \in 0..LastIndex : forv[k])
        => /\ err # "UnboundLocalError"
           /\ ScanDone => (Len(table) = 1 /\ table[1].cvz)
           /\ ~ScanDone => table = << >>

C2_Witness ==
    /\ pc = "done" /\ pa = "X" /\ span = MaxSpan
    /\ \A k \in 0..LastIndex : forv[k]
    /\ Len(table) = 1 /\ table[1].cvz

\* C3: for an accepted span (a zero-day span included) whose predicate is false
\* at every grid point, the run raises no error from reading unassigned loop
\* state and emits no Window.
C3_AllFalseCompletesEmpty ==
    (Accepted /\ \A k \in 0..LastIndex : ~P(k))
        => (err # "UnboundLocalError" /\ table = << >>)

\* C4: when the grid is exhausted with the predicate true after at least one
\* flip, the last emitted Window is finite, starts at the last window-open time
\* and ends at the last grid time, search_end.
C4_FinalWindowEndsAtSearchEnd ==
    (pc = "project_init" /\ iflip /\ iflag)
        => /\ Len(table) >= 1
           /\ ~table[Len(table)].cvz
           /\ table[Len(table)].wstart = twstart
           /\ table[Len(table)].wend = Day * end_date

Invoked == {c[2] : c \in calls}

\* C5 as stated: in_FOR and is_valid are never both invoked in one run; every
\* evaluation, of the scan and of the projection, uses is_valid when a fixed
\* position angle is supplied and in_FOR when none is.
C5_OnePredicatePerRun ==
    /\ Invoked # {"in_FOR", "is_valid"}
    /\ \A c \in calls : c[2] = (IF pa = "X" THEN "in_FOR" ELSE "is_valid")

\* C5 amended: every evaluation of the scan uses is_valid when a fixed
\* position angle is supplied and in_FOR when none is; every evaluation of the
\* projection uses in_FOR in both modes.
C5_ScanByModeProjectionByFOR ==
    \A c \in calls :
        /\ c[1] = "scanner" => c[2] = (IF pa = "X" THEN "in_FOR" ELSE "is_valid")
        /\ c[1] = "projector" => c[2] = "in_FOR"

C5_Witness ==
    /\ pc = "done" /\ pa = "PA"
    /\ calls = {<<"scanner", "is_valid">>, <<"projector", "in_FOR">>}

\* C6: bound_angle(x) lies in [0, 360) and differs from x by a whole multiple
\* of 360, for every input, the exact multiples of 360 included.
C6_BoundAngleInHalfOpenRange ==
    pc = "returned"
        => (0 <= ang_out /\ ang_out < Full /\ (ang_out - ang) % Full = 0)

\* C7 as stated: the continuous-viewing Window carries entry 0, exit 360 when
\* the final declination is non-negative and entry 360, exit 0 when negative.
C7_NorthZeroFirst ==
    \A j \in CvzWindows :
        IF dec_final >= 0
        THEN table[j].pa_start.val = 0 /\ table[j].pa_end.val = Full
        ELSE table[j].pa_start.val = Full /\ table[j].pa_end.val = 0

\* C7 amended: the continuous-viewing Window carries entry 360, exit 0 when
\* the declination at the last scanned grid point is strictly positive, and
\* entry 0, exit 360 when it is zero or negative.
C7_PositiveDecFullFirst ==
    \A j \in CvzWindows :
        IF dec_final > 0
        THEN table[j].pa_start.val = Full /\ table[j].pa_end.val = 0
        ELSE table[j].pa_start.val = 0 /\ table[j].pa_end.val = Full

C7_Witness ==
    /\ pc = "done" /\ CvzWindows # {} /\ dec_final > 0
    /\ \A j \in CvzWindows : table[j].pa_start.val = Full /\ table[j].pa_end.val = 0

Populated(b, k) == ~IsNaN(b.lo[k]) \/ ~IsNaN(b.hi[k])
Wrapped(k) == Gt(min_pa[k], max_pa[k])
Missing(k) == IsNaN(min_pa[k]) /\ IsNaN(max_pa[k])

\* C8: in a series with at least one wrapped epoch, a non-wrapped epoch
\* (min <= max, min = max included) populates only the middle band, a wrapped
\* epoch only the upper and lower bands, a missing epoch no band.
C8_BandsExclusive ==
    (pc = "returned" /\ any_wrapped(min_pa, max_pa))
        => \A k \in 1..Len(min_pa) :
              /\ (~Missing(k) /\ ~Wrapped(k))
                    => (~Populated(bands[1], k) /\ ~Populated(bands[2], k)
                        /\ Populated(bands[3], k))
              /\ Wrapped(k)
                    => (Populated(bands[1], k) /\ Populated(bands[2], k)
                        /\ ~Populated(bands[3], k))
              /\ Missing(k)
                    => (~Populated(bands[1], k) /\ ~Populated(bands[2], k)
                        /\ ~Populated(bands[3], k))

\* C9: at a wrapped epoch the upper band is [min, 360] and the lower band is
\* [0, max]; at a non-wrapped epoch the middle band is the original (min, max);
\* no band has min > max at any epoch.
C9_BandingRoundTrip ==
    pc = "returned"
        => /\ \A k \in 1..Len(min_pa) :
                /\ Wrapped(k)
                     => /\ Len(bands) = 3
                        /\ bands[1].lo[k] = min_pa[k] /\ bands[1].hi[k] = Num(Full)
                        /\ bands[2].lo[k] = Num(0) /\ bands[2].hi[k] = max_pa[k]
                /\ (~Missing(k) /\ ~Wrapped(k))
                     => /\ bands[Len(bands)].lo[k] = min_pa[k]
                        /\ bands[Len(bands)].hi[k] = max_pa[k]
           /\ \A b \in 1..Len(bands) : \A k \in 1..Len(min_pa) :
                ~Gt(bands[b].lo[k], bands[b].hi[k])

C9_Witness ==
    /\ pc = "returned" /\ Len(min_pa) = 2
    /\ min_pa[1] = Num(3500000) /\ max_pa[1] = Num(100000)
    /\ min_pa[2] = Num(100000) /\ max_pa[2] = Num(3500000)
    /\ bands[1].lo[1] = Num(3500000) /\ bands[1].hi[1] = Num(Full)
    /\ bands[2].lo[1] = Num(0) /\ bands[2].hi[1] = Num(100000)
    /\ bands[3].lo[2] = Num(100000) /\ bands[3].hi[2] = Num(3500000)

\* C10: with search_start after search_end, or a bound outside 2020-01-01 to
\* 2024-12-31, the run raises ValueError before any predicate evaluation and
\* emits no Window and no per-day row.
C10_InvalidRangeAbortsFirst ==
    ~Accepted
        => /\ pc \in {"main", "error"}
           /\ pc = "error" => err = "ValueError"
           /\ calls = {} /\ table = << >> /\ rows = << >>

C10_Witness ==
    /\ pc = "error" /\ err = "ValueError" /\ start_date > end_date
    /\ DomainMin <= end_date /\ start_date <= DomainMax
    /\ calls = {} /\ table = << >> /\ rows = << >>

\* The two consecutive grid times around the transition a bisect call refines.
GridTime(k) == Day * (search_start + k)

\* C11: on every transition between consecutive grid points t_prev and t_cur
\* the bisection is called with exactly t_prev and t_cur as its two times, in
\* the opposite order for a true-to-false transition than for a false-to-true
\* one.
C11_BisectBracketsGridPoints ==
    /\ \A b \in 1..Len(bisects) :
          {bisects[b].first, bisects[b].second}
              = {GridTime(bisects[b].index - 1), GridTime(bisects[b].index)}
    /\ \A b \in 1..Len(bisects) : \A c \in 1..Len(bisects) :
          (bisects[b].opening /\ ~bisects[c].opening)
              => ((bisects[b].first = GridTime(bisects[b].index))
                    # (bisects[c].first = GridTime(bisects[c].index)))

\* The grid indices the scan loop visits, and among them the first index of
\* each maximal run of true points, in increasing order.
Scanned == 0..(span - 1)
ScannedRuns == {k \in Scanned : P(k) /\ (k = 0 \/ ~P(k - 1))}
NthRun(j) == CHOOSE k \in ScannedRuns : Cardinality({m \in ScannedRuns : m < k}) = j - 1
\* Where the run that starts at k is closed: the first false point after it,
\* or the last visited index when the scan ends inside the run.
RunClose(k) ==
    IF \E m \in Scanned : m > k /\ ~P(m)
    THEN CHOOSE m \in Scanned : m > k /\ ~P(m) /\ \A n \in (k + 1)..(m - 1) : P(n)
    ELSE span - 1

\* C12: every finite Window, the trailing one of a moving target included,
\* carries as entry position, and uses for its entry position angle, the
\* target position at the grid index where it opened (index 0 for a window
\* open at search_start), and as exit position the position at the index
\* where it closed or where the scan ended.
C12_WindowCarriesOpeningPosition ==
    ScanDone
        => \A j \in FiniteWindows :
              /\ table[j].ra_start = Pos(NthRun(j))
              /\ pa = "X" => table[j].pa_start.pos = Pos(NthRun(j))
              /\ table[j].ra_end = Pos(RunClose(NthRun(j)))

\* The absolute ceiling minus the margin, 5.2 - 0.1 degrees, in roll units.
RollCeiling == (AbsMaxSunRoll - Margin) * RollDivisor

\* C13: allowed_max_sun_roll(p) is at most 5.2 - 0.1 degrees for every pitch,
\* is exactly that for p <= 2.5 degrees, and does not increase with p above
\* 2.5 degrees.
C13_RollCurve ==
    pc = "returned"
        => /\ max_sun_roll <= RollCeiling /\ max_sun_roll2 <= RollCeiling
           /\ sun_p <= PitchThreshold => max_sun_roll = RollCeiling
           /\ (PitchThreshold < sun_p /\ sun_p <= sun_p2)
                 => max_sun_roll2 <= max_sun_roll

C13_Witness ==
    /\ pc = "returned"
    /\ PitchThreshold < sun_p /\ sun_p < sun_p2
    /\ max_sun_roll2 < max_sun_roll /\ max_sun_roll < RollCeiling

ClosingBisects == {b \in 1..Len(bisects) : ~bisects[b].opening}

\* C14: with a bisection that returns a time inside the bracket it is given,
\* each finite Window starts no later than it ends, each starts strictly after
\* the end of the Window emitted before it, and a window is open (twstart > 0)
\* whenever the predicate was last seen true, so that every true-to-false
\* transition of the scan has emitted its Window.
C14_WindowsOrderedAndDisjoint ==
    /\ \A j \in FiniteWindows : table[j].wstart <= table[j].wend
    /\ \A j \in FiniteWindows : \A k \in FiniteWindows :
          j < k => table[j].wend < table[k].wstart
    /\ (pc \in {"scan", "post"} /\ iflag_old) => twstart > 0
    /\ pc \in {"scan", "post"} => Cardinality(ClosingBisects) = Len(table)

C14_Witness ==
    /\ pc = "done"
    /\ Cardinality(FiniteWindows) = 2
    /\ Cardinality(ClosingBisects) = 1
    /\ table[1].wstart < table[1].wend
    /\ table[1].wend < table[2].wstart
    /\ table[2].wstart <= table[2].wend
====
